---- MODULE Spec2Model ----
(***************************************************************************)
(* A model of create_visualizations.py: main() loads three CSV tables,     *)
(* reshapes them and hands four figures to the plotting library.           *)
(*                                                                         *)
(* Numbers are exact: a value is an integer count of hundredths (0.25 is   *)
(* 25), a mean or a marker size is a fraction [num, den].  Floating-point  *)
(* rounding error is not modelled.                                         *)
(***************************************************************************)
EXTENDS Integers, Sequences, FiniteSets, TLC

VARIABLES
    pc,            \* the statement of main() that runs next
    files,         \* the data directory: the three CSV files (environment)
    disk,          \* the output directory: whether it exists, and its files
    disk0,         \* the output directory as it was before the run
    figures,       \* main()'s local list `figures`
    returned,      \* what main() returned: <<>> while it has not, else <<list>>
    failed_at,     \* the step whose exception ended main(), "none" otherwise
    trace,         \* the steps of main() that have started, in order
    heap,          \* the DataFrame objects: object name -> rows
    pivot_table,   \* plot_weather_heatmap: the matrix given to sns.heatmap
    points,        \* plot_weather_scatter: the markers sns.scatterplot draws
    size_legend,   \* plot_weather_scatter: the precipitation legend entries
    heatmap_data,  \* plot_global_temp_heatmap: the matrix given to sns.heatmap
    max_precip,    \* plot_weather_scatter: its local max_precip
    series         \* plot_minnesota_precip_line: the lines sns.lineplot draws

vars == <<pc, files, disk, disk0, figures, returned, failed_at, trace, heap,
          pivot_table, points, size_legend, heatmap_data, max_precip, series>>

-----------------------------------------------------------------------------
(* Bounds of the model. *)

MaxWeatherRows == 3
MaxPrecipRows == 4
MaxGlobalRows == 3
MaxMinnRows == 3

-----------------------------------------------------------------------------
(* Generic helpers. *)

Range(s) == {s[i] : i \in DOMAIN s}

SeqsUpTo(S, n) == UNION {[1..k -> S] : k \in 1..n}

RECURSIVE SumOver(_, _)
SumOver(f, S) ==
    IF S = {} THEN 0
    ELSE LET x == CHOOSE y \in S : TRUE IN f[x] + SumOver(f, S \ {x})

\* The elements of a finite set of integers as an ascending sequence.
RECURSIVE SortedInts(_)
SortedInts(S) ==
    IF S = {} THEN <<>>
    ELSE LET m == CHOOSE x \in S : \A y \in S : x <= y
         IN <<m>> \o SortedInts(S \ {m})

\* The elements of sequence s in ascending order (duplicates kept).
RECURSIVE SortValues(_)
SortValues(s) ==
    IF s = <<>> THEN <<>>
    ELSE LET i == CHOOSE j \in DOMAIN s : \A k \in DOMAIN s : s[j] <= s[k]
             rest == [k \in 1..(Len(s) - 1) |-> IF k < i THEN s[k] ELSE s[k + 1]]
         IN <<s[i]>> \o SortValues(rest)

-----------------------------------------------------------------------------
(* Cells of a DataFrame column: a float, NaN / pd.NA, or a Python string. *)

Num(x) == [k |-> "num", v |-> x, s |-> <<>>]
NaN == [k |-> "nan", v |-> 0, s |-> <<>>]
Str(t) == [k |-> "str", v |-> 0, s |-> t]

Digits == <<"0", "1", "2", "3", "4", "5", "6", "7", "8", "9">>

IsDigit(c) == \E i \in 1..10 : Digits[i] = c

DigitVal(c) == (CHOOSE i \in 1..10 : Digits[i] = c) - 1

RECURSIVE DigitsVal(_)
DigitsVal(t) ==
    IF t = <<>> THEN 0
    ELSE 10 * DigitsVal(SubSeq(t, 1, Len(t) - 1)) + DigitVal(t[Len(t)])

\* The text of a CSV field as a number of hundredths, <<>> when it is no
\* number: [-]digits[.digits] with at least one digit, as float() reads it
\* (fields of the model carry at most two decimals).
ParseNumber(t) ==
    LET neg == t # <<>> /\ t[1] = "-"
        u == IF neg THEN Tail(t) ELSE t
        dots == {i \in DOMAIN u : u[i] = "."}
        ip == IF dots = {} THEN u
              ELSE SubSeq(u, 1, (CHOOSE i \in dots : TRUE) - 1)
        fp == IF dots = {} THEN <<>>
              ELSE SubSeq(u, (CHOOSE i \in dots : TRUE) + 1, Len(u))
        wellformed == /\ Cardinality(dots) <= 1
                      /\ Len(ip) + Len(fp) >= 1
                      /\ Len(fp) <= 2
                      /\ \A i \in DOMAIN ip : IsDigit(ip[i])
                      /\ \A i \in DOMAIN fp : IsDigit(fp[i])
        frac == IF Len(fp) = 0 THEN 0
                ELSE IF Len(fp) = 1 THEN 10 * DigitVal(fp[1])
                ELSE DigitsVal(fp)
        mag == 100 * DigitsVal(ip) + frac
    IN IF wellformed THEN <<IF neg THEN 0 - mag ELSE mag>> ELSE <<>>

\* The fields pd.read_csv reads as missing (its default na_values; the model
\* uses the empty field and "NA").
NaTokens == {<<>>, <<"N", "A">>}

\* pd.read_csv on one column: a column whose present fields are all numbers
\* becomes a float column, otherwise every present field stays a string.
ReadColumn(col) ==
    LET numeric == \A i \in DOMAIN col :
                       col[i] \in NaTokens \/ ParseNumber(col[i]) # <<>>
    IN [i \in DOMAIN col |->
           IF col[i] \in NaTokens THEN NaN
           ELSE IF numeric THEN Num(ParseNumber(col[i])[1])
           ELSE Str(col[i])]

\* pd.to_numeric(cell, errors="coerce")
ToNumeric(c) ==
    IF c.k = "str"
    THEN (IF ParseNumber(c.s) # <<>> THEN Num(ParseNumber(c.s)[1]) ELSE NaN)
    ELSE c

\* Series.fillna(x)
FillNa(c, x) == IF c.k = "nan" THEN Num(x) ELSE c

-----------------------------------------------------------------------------
(* DataFrame reshaping shared by the two heatmaps. *)

\* DataFrame.pivot raises ValueError ("Index contains duplicate entries")
\* when two rows of the long table share (index, column).
PivotFails(long) ==
    \E i, j \in DOMAIN long :
        i # j /\ long[i].r = long[j].r /\ long[i].c = long[j].c

\* DataFrame.pivot(index=r, columns=c, values=v): one row per distinct r (in
\* the sorted order `index`), one column per distinct c (ascending), the
\* value of the row holding the pair, `missing` where no row holds it.
Pivot(long, index, missing) ==
    LET cols == SortedInts({long[i].c : i \in DOMAIN long})
    IN [index |-> index,
        columns |-> cols,
        cells |-> [p \in Range(index) \X Range(cols) |->
                     IF \E i \in DOMAIN long : long[i].r = p[1] /\ long[i].c = p[2]
                     THEN long[CHOOSE i \in DOMAIN long :
                                  long[i].r = p[1] /\ long[i].c = p[2]].v
                     ELSE missing]]

-----------------------------------------------------------------------------
(* plot_weather_heatmap *)

\* The city names of the model in lexicographic order, the order in which
\* groupby and pivot sort string keys.
CityOrder == <<"Auckland", "Christchurch">>

CityRank(c) == CHOOSE i \in DOMAIN CityOrder : CityOrder[i] = c

RECURSIVE SortedCities(_)
SortedCities(S) ==
    IF S = {} THEN <<>>
    ELSE LET m == CHOOSE x \in S : \A y \in S : CityRank(x) <= CityRank(y)
         IN <<m>> \o SortedCities(S \ {m})

\* Mutant of GroupRows: the month is left out of the grouping key.
GroupRowsCityOnly(df, city, month) ==
    {i \in DOMAIN df : df[i].city = city}

\* The rows of one group of df.groupby(["city", "month"]).
GroupRows(df, city, month) ==
    {i \in DOMAIN df : df[i].city = city /\ df[i].month = month}

\* .mean() of avg_temp over a group, as the fraction sum / count.
GroupMean(df, rows) ==
    [num |-> SumOver([i \in DOMAIN df |-> df[i].avg_temp], rows),
     den |-> Cardinality(rows)]

\* df.groupby(["city","month"])["avg_temp"].mean().reset_index(): one row
\* per (city, month) that occurs, sorted by city, then month.
MonthlyAvg(df) ==
    LET cities == SortedCities({df[i].city : i \in DOMAIN df})
        monthsOf(c) == SortedInts({df[i].month : i \in {j \in DOMAIN df : df[j].city = c}})
        RECURSIVE rowsFrom(_)
        rowsFrom(k) ==
            IF k > Len(cities) THEN <<>>
            ELSE [m \in DOMAIN monthsOf(cities[k]) |->
                     [r |-> cities[k],
                      c |-> monthsOf(cities[k])[m],
                      v |-> <<GroupMean(df, GroupRows(df, cities[k], monthsOf(cities[k])[m]))>>]]
                 \o rowsFrom(k + 1)
    IN rowsFrom(1)

\* DataFrame.sort_index(axis=1): the columns in ascending order.
SortColumns(p) == [p EXCEPT !.columns = SortValues(@)]

\* The matrix plot_weather_heatmap hands to sns.heatmap.
WeatherPivot(df) ==
    LET monthly_avg == MonthlyAvg(df)
    IN SortColumns(Pivot(monthly_avg,
                         SortedCities({monthly_avg[i].r : i \in DOMAIN monthly_avg}),
                         <<>>))

-----------------------------------------------------------------------------
(* plot_weather_scatter *)

\* Fractions [num, den] with den > 0.
Frac(n, d) == [num |-> n, den |-> d]

FracEq(a, b) == a.num * b.den = b.num * a.den

FracLeq(a, b) == a.num * b.den <= b.num * a.den

\* size_range = (20, 300)
SizeLo == 20
SizeHi == 300

\* Mutant of CleanPrecip: the non-numeric fields are coerced but not filled.
CleanPrecipNoFill(df) ==
    [i \in DOMAIN df |-> [df[i] EXCEPT !.precip = ToNumeric(@)]]

\* pd.to_numeric(df_plot["precip"], errors="coerce").fillna(0.0)
CleanPrecip(df) ==
    [i \in DOMAIN df |-> [df[i] EXCEPT !.precip = FillNa(ToNumeric(@), 0)]]

\* The present numeric values of the precip column, in row order.
PrecipValues(df) ==
    LET RECURSIVE from(_)
        from(i) == IF i > Len(df) THEN <<>>
                   ELSE (IF df[i].precip.k = "num" THEN <<df[i].precip.v>> ELSE <<>>)
                        \o from(i + 1)
    IN from(1)

\* Series.quantile(0.95), linear interpolation between the two nearest order
\* statistics, as a fraction over 20: position (n - 1) * 19 / 20.
Quantile95(vals) ==
    LET sorted == SortValues(vals)
        n == Len(sorted)
        lo == ((n - 1) * 19) \div 20
        r == ((n - 1) * 19) % 20
        hi == IF lo + 2 <= n THEN lo + 2 ELSE n
    IN Frac(20 * sorted[lo + 1] + r * (sorted[hi] - sorted[lo + 1]), 20)

\* max_precip = quantile(0.95) if notna().any() else 1.0
MaxPrecip(df) ==
    IF PrecipValues(df) # <<>> THEN Quantile95(PrecipValues(df)) ELSE Frac(2000, 20)

\* The marker size sns.scatterplot(size="precip", sizes=size_range) gives
\* value v: no size_norm is passed, so the norm is autoscaled to the data,
\* lo + (v - vmin) / (vmax - vmin) * (hi - lo), and 0 when vmin = vmax.
ScatterSize(v, vmin, vmax) ==
    IF vmax = vmin THEN Frac(SizeLo, 1)
    ELSE Frac(SizeLo * (vmax - vmin) + (SizeHi - SizeLo) * (v - vmin), vmax - vmin)

\* The markers drawn: seaborn drops the rows with a missing x, y, hue or
\* size, and draws one marker for each row left.
ScatterPoints(df) ==
    LET vals == PrecipValues(df)
        sorted == SortValues(vals)
        RECURSIVE from(_)
        from(i) ==
            IF i > Len(df) THEN <<>>
            ELSE (IF df[i].precip.k = "num"
                  THEN <<[row |-> i, city |-> df[i].city,
                          x |-> df[i].avg_humidity, y |-> df[i].avg_temp,
                          precip |-> df[i].precip.v,
                          size |-> ScatterSize(df[i].precip.v, sorted[1], sorted[Len(sorted)])]>>
                  ELSE <<>>) \o from(i + 1)
    IN from(1)

\* np.round(x, 2) of the non-negative fraction n / d of hundredths: to the
\* nearest hundredth, a tie to the even one.
RoundHalfEven(n, d) ==
    LET q == n \div d
        r == n % d
    IN IF 2 * r < d THEN q
       ELSE IF 2 * r > d THEN q + 1
       ELSE IF q % 2 = 0 THEN q ELSE q + 1

\* np.linspace(0, max_precip, 4), rounded to two decimals.
RoundedLinspace(mp) ==
    [i \in 1..4 |-> RoundHalfEven((i - 1) * mp.num, 3 * mp.den)]

\* Mutant of RefValues: the rounded values without np.unique.
RefValuesNotUnique(mp) == RoundedLinspace(mp)

\* ref_values = np.unique(np.round(np.linspace(0, max_precip, 4), 2))
RefValues(mp) == SortedInts(Range(RoundedLinspace(mp)))

\* np.interp(v, [0, max_precip], size_range)
Interp(v, mp) ==
    IF v * mp.den >= mp.num THEN Frac(SizeHi, 1)
    ELSE IF v <= 0 THEN Frac(SizeLo, 1)
    ELSE Frac(SizeLo * mp.num + (SizeHi - SizeLo) * v * mp.den, mp.num)

\* The handles and labels of the precipitation legend.
SizeLegend(mp) ==
    LET ref_values == RefValues(mp)
    IN [i \in DOMAIN ref_values |->
           [value |-> ref_values[i], size |-> Interp(ref_values[i], mp)]]

-----------------------------------------------------------------------------
(* plot_global_temp_heatmap and main()'s preprocessing of its table *)

\* months (the melted columns, in this order)
months ==
    <<"Jan", "Feb", "Mar", "Apr", "May", "Jun", "Jul", "Aug", "Sep",
      "Oct", "Nov", "Dec">>

\* month_order
month_order ==
    [m \in Range(months) |->
        CASE m = "Jan" -> 1 [] m = "Feb" -> 2 [] m = "Mar" -> 3 [] m = "Apr" -> 4
          [] m = "May" -> 5 [] m = "Jun" -> 6 [] m = "Jul" -> 7 [] m = "Aug" -> 8
          [] m = "Sep" -> 9 [] m = "Oct" -> 10 [] m = "Nov" -> 11 [] m = "Dec" -> 12]

Stars == <<"*", "*", "*">>

\* pd.read_csv(global_path, skiprows=1): Year is an integer column, each
\* month column is inferred on its own.
ReadGlobalCsv(rows) ==
    LET col(m) == ReadColumn([i \in DOMAIN rows |-> rows[i].vals[m]])
    IN [i \in DOMAIN rows |->
           [Year |-> rows[i].Year,
            vals |-> [m \in Range(months) |-> col(m)[i]]]]

\* global_df.replace("***", pd.NA)
ReplaceStars(df) ==
    [i \in DOMAIN df |->
        [df[i] EXCEPT !.vals = [m \in DOMAIN @ |-> IF @[m] = Str(Stars) THEN NaN ELSE @[m]]]]

\* Mutant of CoerceColumns: the missing cells are filled with 0, the
\* scatter plot's policy.
CoerceColumnsFillZero(df) ==
    [i \in DOMAIN df |->
        [df[i] EXCEPT !.vals = [m \in DOMAIN @ |-> FillNa(ToNumeric(@[m]), 0)]]]

\* for col in global_df.columns[1:]: pd.to_numeric(global_df[col], errors="coerce")
CoerceColumns(df) ==
    [i \in DOMAIN df |->
        [df[i] EXCEPT !.vals = [m \in DOMAIN @ |-> ToNumeric(@[m])]]]

\* df.melt(id_vars="Year", value_vars=months, ...): column after column, the
\* rows of df in order.
Melt(df) ==
    LET n == Len(df)
    IN [j \in 1..(Len(months) * n) |->
           LET k == ((j - 1) \div n) + 1
               i == ((j - 1) % n) + 1
           IN [Year |-> df[i].Year, Month |-> months[k], Anomaly |-> df[i].vals[months[k]]]]

\* Mutant of MonthNum: months numbered from 0.
MonthNumZeroBased(name) == month_order[name] - 1

\* df_long["Month"].map(month_order)
MonthNum(name) == month_order[name]

\* The (Year, MonthNum, Anomaly) rows handed to pivot.
GlobalLong(df) ==
    LET df_long == Melt(df)
    IN [j \in DOMAIN df_long |->
           [r |-> df_long[j].Year, c |-> MonthNum(df_long[j].Month), v |-> df_long[j].Anomaly]]

\* DataFrame.sort_index(): the rows in ascending order of the index.
SortIndex(p) == [p EXCEPT !.index = SortValues(@)]

\* The matrix plot_global_temp_heatmap hands to sns.heatmap.
GlobalPivot(df) ==
    LET long == GlobalLong(df)
    IN SortIndex(Pivot(long, SortedInts({long[j].r : j \in DOMAIN long}), NaN))

-----------------------------------------------------------------------------
(* plot_minnesota_precip_line *)

\* Mutant of ToDatetime: the month and the day are swapped.
ToDatetimeSwapped(year, month, day) == [year |-> year, month |-> day, day |-> month]

\* pd.to_datetime(dict(year=..., month=..., day=...)), one row
ToDatetime(year, month, day) == [year |-> year, month |-> month, day |-> day]

\* df_plot["date"] = pd.to_datetime(dict(year=df_plot["year"], month=df_plot["mo"], day=1))
WithDate(df) ==
    [i \in DOMAIN df |->
        [site |-> df[i].site, year |-> df[i].year, mo |-> df[i].mo,
         precip |-> df[i].precip, date |-> ToDatetime(df[i].year, df[i].mo, 1)]]

\* A date as a number that orders dates.
DateKey(d) == d.year * 10000 + d.month * 100 + d.day

\* sns.lineplot(..., hue="site"): the column that splits the rows into lines
HueKey(row) == row.site

\* The lines drawn: one per distinct hue value, holding the rows with that
\* value, drawn along their dates in ascending order.
LineSeries(df) ==
    [h \in {HueKey(df[i]) : i \in DOMAIN df} |->
        LET rows == {i \in DOMAIN df : HueKey(df[i]) = h}
        IN [rows |-> rows,
            xs |-> SortedInts({DateKey(df[i].date) : i \in rows})]]

-----------------------------------------------------------------------------
(* The files main() reads, and the output directory it writes to. *)

File(rows) == [present |-> TRUE, rows |-> rows]

MissingFile == [present |-> FALSE, rows |-> <<>>]

WeatherRow(city, month, avg_temp, avg_humidity, precip) ==
    [city |-> city, month |-> month, avg_temp |-> avg_temp,
     avg_humidity |-> avg_humidity, precip |-> precip]

\* The text of v hundredths, -99 <= v <= 99, as GISTEMP prints it: "-.16", ".09".
FormatHundredths(v) ==
    LET a == IF v < 0 THEN 0 - v ELSE v
    IN (IF v < 0 THEN <<"-">> ELSE <<>>)
       \o <<".", Digits[(a \div 10) + 1], Digits[(a % 10) + 1]>>

GlobalYears == {1880, 1881, 1882}

\* One row of global_temp.csv: every month holds a number of its own, but
\* for the month `at` (0: none), which holds the field `tok`.
GlobalRow(year, at, tok) ==
    [Year |-> year,
     vals |-> [m \in Range(months) |->
                 IF month_order[m] = at THEN tok
                 ELSE FormatHundredths((year - 1881) * 12 + month_order[m] - 6)]]

GlobalRowVariants == {<<0, <<>>>>, <<7, Stars>>, <<12, <<"a", "b", "c">>>>}

GlobalRows ==
    {GlobalRow(y, var[1], var[2]) : y \in GlobalYears, var \in GlobalRowVariants}

MinnRows ==
    [site : {"Crookston", "Duluth"}, year : {1927, 1928}, mo : {1, 12}, precip : {150}]

PrecipTokens ==
    {<<"0">>, <<"0", ".", "0", "1">>, <<"0", ".", "3">>, <<"T">>, <<>>}

HeatmapRows ==
    {WeatherRow(c, m, t, 70, <<"0">>) :
        c \in Range(CityOrder), m \in {2, 12}, t \in {50, 65}}

\* A weather row at position i whose precip field is tok.
ScatterRow(i, tok) ==
    WeatherRow(CityOrder[(i % 2) + 1], ((i - 1) % 12) + 1, 50 + i, 60 + i, tok)

Weather1 ==
    File(<<WeatherRow("Auckland", 1, 68, 70, <<"0">>),
           WeatherRow("Christchurch", 1, 60, 80, <<"T">>),
           WeatherRow("Auckland", 1, 70, 75, <<"0", ".", "3">>)>>)

Weather2 ==
    File(<<WeatherRow("Christchurch", 2, 61, 66, <<"0", ".", "0", "1">>),
           WeatherRow("Auckland", 1, 68, 70, <<>>)>>)

\* Twenty dry days, then 0.3 and 1.25: two values lie above the 95th
\* percentile (0.285).
Weather22 ==
    File([i \in 1..22 |->
            ScatterRow(i, IF i <= 20 THEN <<"0">>
                          ELSE IF i = 21 THEN <<"0", ".", "3">>
                          ELSE <<"1", ".", "2", "5">>)])

Global1 ==
    File(<<GlobalRow(1880, 0, <<>>), GlobalRow(1881, 7, Stars), GlobalRow(1882, 0, <<>>)>>)

\* A table in which a year occurs twice.
Global2 == File(<<GlobalRow(1881, 0, <<>>), GlobalRow(1881, 12, Stars)>>)

\* A table with an empty field and a blank column.
Global3 ==
    File(<<GlobalRow(1882, 1, <<>>), GlobalRow(1880, 1, <<"N", "A">>)>>)

Minn1 ==
    File(<<[site |-> "Duluth", year |-> 1928, mo |-> 12, precip |-> 150],
           [site |-> "Crookston", year |-> 1927, mo |-> 1, precip |-> 150]>>)

MainFiles ==
    [weather : {MissingFile, Weather1, Weather2},
     global : {MissingFile, Global1, Global2, Global3},
     minn : {MissingFile, Minn1}]

HeatmapFiles ==
    {[weather |-> File(t), global |-> Global1, minn |-> Minn1] :
        t \in SeqsUpTo(HeatmapRows, MaxWeatherRows)}

ScatterFiles ==
    {[weather |-> File([i \in DOMAIN toks |-> ScatterRow(i, toks[i])]),
      global |-> Global1, minn |-> Minn1] :
        toks \in SeqsUpTo(PrecipTokens, MaxPrecipRows)}
    \cup {[weather |-> Weather22, global |-> Global1, minn |-> Minn1]}

GlobalFiles ==
    {[weather |-> Weather1, global |-> File(t), minn |-> Minn1] :
        t \in SeqsUpTo(GlobalRows, MaxGlobalRows)}

MinnFiles ==
    {[weather |-> Weather1, global |-> Global1, minn |-> File(t)] :
        t \in SeqsUpTo(MinnRows, MaxMinnRows)}

\* The output directory before the run: absent, or present with any files
\* an earlier run or the user left in it.
AbsentDir == [exists |-> FALSE, names |-> {}]

DiskStates ==
    {AbsentDir} \cup
    {[exists |-> TRUE, names |-> S] : S \in SUBSET {"weather_heatmap.png", "notes.txt"}}

OutDir == "output"

\* os.path.join(outdir, name)
Join(dir, name) == <<dir, name>>

\* pd.read_csv(weather_path)
ReadWeatherCsv(rows) ==
    LET precip == ReadColumn([i \in DOMAIN rows |-> rows[i].precip])
    IN [i \in DOMAIN rows |-> [rows[i] EXCEPT !.precip = precip[i]]]

\* pd.read_csv(minn_path)
ReadMinnCsv(rows) == rows

-----------------------------------------------------------------------------
(* main() *)

Steps ==
    <<"ensure_output_dir", "load_weather", "weather_heatmap", "weather_scatter",
      "load_global", "preprocess_global", "global_temp_heatmap",
      "load_minn", "minnesota_precip_line", "return", "done">>

StepIndex(step) == CHOOSE i \in DOMAIN Steps : Steps[i] = step

\* The statement after `step`.
Following(step) == Steps[StepIndex(step) + 1]

\* Mutant of Raise: the failed step is run again.
RetryStep(step) == step

\* An exception in a step of main(): nothing catches it, main() ends.
Raise(step) == "failed"

\* Mutant of MakeDirs: the directory is not created.
MakeDirsNoop(d) == d

\* os.makedirs(path, exist_ok=True)
MakeDirs(d) == [exists |-> TRUE, names |-> d.names]

\* plt.savefig(fname) into the output directory.
SaveFig(d, name) == [exists |-> d.exists, names |-> d.names \cup {name}]

\* Mutant of DfCopy: the local name is bound to the caller's object.
DfAlias(src, fresh) == src

\* df.copy(): the object the local name is bound to, a fresh one.
DfCopy(src, fresh) == fresh

Objects ==
    {"weather_df", "global_df", "minn_df", "scatter_df_plot", "df_long", "minn_df_plot"}

EmptyMatrix == [index |-> <<>>, columns |-> <<>>, cells |-> <<>>]

InitWith(fileSets, diskStates) ==
    /\ pc = "ensure_output_dir"
    /\ files \in fileSets
    /\ disk \in diskStates
    /\ disk0 = disk
    /\ figures = <<>>
    /\ returned = <<>>
    /\ failed_at = "none"
    /\ trace = <<>>
    /\ heap = [o \in Objects |-> <<>>]
    /\ pivot_table = EmptyMatrix
    /\ points = <<>>
    /\ size_legend = <<>>
    /\ heatmap_data = EmptyMatrix
    /\ max_precip = Frac(0, 1)
    /\ series = <<>>

Init == InitWith(MainFiles, DiskStates)

locals == <<pivot_table, points, size_legend, heatmap_data, max_precip, series>>

\* `step` runs to its end.
Finish(step) ==
    /\ pc' = Following(step)
    /\ trace' = Append(trace, step)
    /\ UNCHANGED <<files, disk0, returned, failed_at>>

\* `step` raises; a renderer that raises inside savefig may leave its file,
\* partly written, behind.
Fail(step, partial) ==
    /\ pc' = Raise(step)
    /\ failed_at' = step
    /\ trace' = Append(trace, step)
    /\ disk' = IF partial # "" /\ disk.exists THEN SaveFig(disk, partial) ELSE disk
    /\ UNCHANGED <<files, disk0, figures, returned, heap, locals>>

EnsureOutputDir ==
    /\ pc = "ensure_output_dir"
    /\ disk' = MakeDirs(disk)
    /\ Finish("ensure_output_dir")
    /\ UNCHANGED <<figures, heap, locals>>

LoadWeather ==
    /\ pc = "load_weather"
    /\ files.weather.present
    /\ heap' = [heap EXCEPT !["weather_df"] = ReadWeatherCsv(files.weather.rows)]
    /\ Finish("load_weather")
    /\ UNCHANGED <<disk, figures, locals>>

LoadWeatherFails ==
    /\ pc = "load_weather"
    /\ ~files.weather.present
    /\ Fail("load_weather", "")

PlotWeatherHeatmap ==
    /\ pc = "weather_heatmap"
    /\ disk.exists
    /\ ~PivotFails(MonthlyAvg(heap["weather_df"]))
    /\ pivot_table' = WeatherPivot(heap["weather_df"])
    /\ disk' = SaveFig(disk, "weather_heatmap.png")
    /\ figures' = Append(figures, Join(OutDir, "weather_heatmap.png"))
    /\ Finish("weather_heatmap")
    /\ UNCHANGED <<heap, points, size_legend, heatmap_data, max_precip, series>>

PlotWeatherHeatmapFails ==
    /\ pc = "weather_heatmap"
    /\ \E partial \in {"", "weather_heatmap.png"} : Fail("weather_heatmap", partial)

PlotWeatherScatter ==
    /\ pc = "weather_scatter"
    /\ disk.exists
    /\ LET ref == DfCopy("weather_df", "scatter_df_plot")
           df_plot == CleanPrecip(heap["weather_df"])
       IN /\ heap' = [heap EXCEPT ![ref] = df_plot]
          /\ max_precip' = MaxPrecip(df_plot)
          /\ points' = ScatterPoints(df_plot)
          /\ size_legend' = SizeLegend(MaxPrecip(df_plot))
    /\ disk' = SaveFig(disk, "weather_scatter.png")
    /\ figures' = Append(figures, Join(OutDir, "weather_scatter.png"))
    /\ Finish("weather_scatter")
    /\ UNCHANGED <<pivot_table, heatmap_data, series>>

PlotWeatherScatterFails ==
    /\ pc = "weather_scatter"
    /\ \E partial \in {"", "weather_scatter.png"} : Fail("weather_scatter", partial)

LoadGlobal ==
    /\ pc = "load_global"
    /\ files.global.present
    /\ heap' = [heap EXCEPT !["global_df"] = ReadGlobalCsv(files.global.rows)]
    /\ Finish("load_global")
    /\ UNCHANGED <<disk, figures, locals>>

LoadGlobalFails ==
    /\ pc = "load_global"
    /\ ~files.global.present
    /\ Fail("load_global", "")

PreprocessGlobal ==
    /\ pc = "preprocess_global"
    /\ heap' = [heap EXCEPT !["global_df"] = CoerceColumns(ReplaceStars(@))]
    /\ Finish("preprocess_global")
    /\ UNCHANGED <<disk, figures, locals>>

PlotGlobalTempHeatmap ==
    /\ pc = "global_temp_heatmap"
    /\ disk.exists
    /\ ~PivotFails(GlobalLong(heap["global_df"]))
    /\ heap' = [heap EXCEPT !["df_long"] =
                   [j \in DOMAIN Melt(heap["global_df"]) |->
                       [Year |-> Melt(heap["global_df"])[j].Year,
                        Month |-> Melt(heap["global_df"])[j].Month,
                        Anomaly |-> Melt(heap["global_df"])[j].Anomaly,
                        MonthNum |-> MonthNum(Melt(heap["global_df"])[j].Month)]]]
    /\ heatmap_data' = GlobalPivot(heap["global_df"])
    /\ disk' = SaveFig(disk, "global_temp_heatmap.png")
    /\ figures' = Append(figures, Join(OutDir, "global_temp_heatmap.png"))
    /\ Finish("global_temp_heatmap")
    /\ UNCHANGED <<pivot_table, points, size_legend, max_precip, series>>

PlotGlobalTempHeatmapFails ==
    /\ pc = "global_temp_heatmap"
    /\ \E partial \in {"", "global_temp_heatmap.png"} :
           /\ partial # "" => ~PivotFails(GlobalLong(heap["global_df"]))
           /\ Fail("global_temp_heatmap", partial)

LoadMinn ==
    /\ pc = "load_minn"
    /\ files.minn.present
    /\ heap' = [heap EXCEPT !["minn_df"] = ReadMinnCsv(files.minn.rows)]
    /\ Finish("load_minn")
    /\ UNCHANGED <<disk, figures, locals>>

LoadMinnFails ==
    /\ pc = "load_minn"
    /\ ~files.minn.present
    /\ Fail("load_minn", "")

PlotMinnesotaPrecipLine ==
    /\ pc = "minnesota_precip_line"
    /\ disk.exists
    /\ LET ref == DfCopy("minn_df", "minn_df_plot")
           df_plot == WithDate(heap["minn_df"])
       IN /\ heap' = [heap EXCEPT ![ref] = df_plot]
          /\ series' = LineSeries(df_plot)
    /\ disk' = SaveFig(disk, "minnesota_precip_line.png")
    /\ figures' = Append(figures, Join(OutDir, "minnesota_precip_line.png"))
    /\ Finish("minnesota_precip_line")
    /\ UNCHANGED <<pivot_table, points, size_legend, heatmap_data, max_precip>>

PlotMinnesotaPrecipLineFails ==
    /\ pc = "minnesota_precip_line"
    /\ \E partial \in {"", "minnesota_precip_line.png"} :
           Fail("minnesota_precip_line", partial)

Return ==
    /\ pc = "return"
    /\ returned' = <<figures>>
    /\ pc' = "done"
    /\ trace' = Append(trace, "return")
    /\ UNCHANGED <<files, disk, disk0, figures, failed_at, heap, locals>>

Next ==
    \/ EnsureOutputDir
    \/ LoadWeather
    \/ LoadWeatherFails
    \/ PlotWeatherHeatmap
    \/ PlotWeatherHeatmapFails
    \/ PlotWeatherScatter
    \/ PlotWeatherScatterFails
    \/ LoadGlobal
    \/ LoadGlobalFails
    \/ PreprocessGlobal
    \/ PlotGlobalTempHeatmap
    \/ PlotGlobalTempHeatmapFails
    \/ LoadMinn
    \/ LoadMinnFails
    \/ PlotMinnesotaPrecipLine
    \/ PlotMinnesotaPrecipLineFails
    \/ Return

Spec == Init /\ [][Next]_vars

\* main() on the small inputs and on every weather table of up to
\* MaxWeatherRows rows of HeatmapRows.
SpecWeatherHeatmap ==
    (Init \/ InitWith(HeatmapFiles, {AbsentDir})) /\ [][Next]_vars

\* ... on every precip column of up to MaxPrecipRows fields of PrecipTokens.
SpecWeatherScatter ==
    (Init \/ InitWith(ScatterFiles, {AbsentDir})) /\ [][Next]_vars

\* ... on every global table of up to MaxGlobalRows rows of GlobalRows.
SpecGlobalTemp ==
    (Init \/ InitWith(GlobalFiles, {AbsentDir})) /\ [][Next]_vars

\* ... on every Minnesota table of up to MaxMinnRows rows of MinnRows.
SpecMinnesota ==
    (Init \/ InitWith(MinnFiles, {AbsentDir})) /\ [][Next]_vars

-----------------------------------------------------------------------------
(* The claims. *)

\* `step` has run to its end.
Done(step) == failed_at # step /\ \E i \in DOMAIN trace : trace[i] = step

FourNames ==
    <<"weather_heatmap.png", "weather_scatter.png", "global_temp_heatmap.png",
      "minnesota_precip_line.png">>

FourPaths == [i \in 1..4 |-> <<"output", FourNames[i]>>]

\* C1 as stated: a successful run ends with exactly the four image files in
\* the output directory, and returns their four paths in order.
C1_ExactlyFourFilesInDir ==
    pc = "done" =>
        /\ disk.exists
        /\ disk.names = Range(FourNames)
        /\ returned = <<FourPaths>>

\* C1, amended: once ensure_output_dir has run the output directory exists,
\* whether it existed before or not; a successful run adds exactly the four
\* named files to whatever the directory held before (files already there
\* stay), and returns the four paths, once each, in the documented order.
C1_FourFiguresWritten ==
    /\ trace # <<>> => disk.exists
    /\ pc = "done" =>
        /\ disk.names = disk0.names \cup Range(FourNames)
        /\ returned = <<FourPaths>>

C1_Witness == pc = "done" /\ ~disk0.exists /\ Len(returned[1]) = 4

\* C2: a failed load or render step ends main(): no step runs after it, no
\* step runs twice, main() returns nothing, and the file of every renderer
\* that finished is still on disk; after a failed load of global_temp.csv
\* the two weather images are written and the two later ones are not.
C2_FailureIsFatal ==
    failed_at # "none" =>
        /\ pc = "failed"
        /\ ~ENABLED Next
        /\ returned = <<>>
        /\ trace[Len(trace)] = failed_at
        /\ \A i, j \in DOMAIN trace : trace[i] = trace[j] => i = j
        /\ \A i \in DOMAIN trace : i < Len(trace) => trace[i] = Steps[i]
        /\ \A i \in DOMAIN figures : figures[i][2] \in disk.names
        /\ failed_at = "load_global" =>
              /\ figures = SubSeq(FourPaths, 1, 2)
              /\ {"weather_heatmap.png", "weather_scatter.png"} \subseteq disk.names
              /\ disk.names \ disk0.names \subseteq
                     {"weather_heatmap.png", "weather_scatter.png"}

C2_Witness ==
    /\ failed_at = "load_global"
    /\ "weather_scatter.png" \in disk.names
    /\ "global_temp_heatmap.png" \notin disk.names

\* C3: the matrix of plot_weather_heatmap has one row per distinct city and
\* one column per distinct month of the data, columns ascending; the cell of
\* a pair that occurs is the mean of avg_temp over exactly the records of
\* the pair, the cell of a pair that does not occur is missing; the grouped
\* table never holds a (city, month) pair twice.
C3_CityMonthMeans ==
    Done("weather_heatmap") =>
        LET rows == files.weather.rows
            cities == {rows[i].city : i \in DOMAIN rows}
            mths == {rows[i].month : i \in DOMAIN rows}
            p == pivot_table
        IN /\ Range(p.index) = cities /\ Len(p.index) = Cardinality(cities)
           /\ Range(p.columns) = mths /\ Len(p.columns) = Cardinality(mths)
           /\ \A a, b \in DOMAIN p.columns : a < b => p.columns[a] < p.columns[b]
           /\ DOMAIN p.cells = cities \X mths
           /\ \A c \in cities, m \in mths :
                 LET G == {i \in DOMAIN rows : rows[i].city = c /\ rows[i].month = m}
                     total == SumOver([i \in DOMAIN rows |-> rows[i].avg_temp], G)
                 IN IF G = {} THEN p.cells[<<c, m>>] = <<>>
                    ELSE /\ Len(p.cells[<<c, m>>]) = 1
                         /\ p.cells[<<c, m>>][1].den > 0
                         /\ p.cells[<<c, m>>][1].num * Cardinality(G)
                                = total * p.cells[<<c, m>>][1].den
           /\ ~PivotFails(MonthlyAvg(heap["weather_df"]))

C3_Witness ==
    /\ Done("weather_heatmap")
    /\ Len(pivot_table.index) = 2 /\ Len(pivot_table.columns) = 2
    /\ \E p \in DOMAIN pivot_table.cells : pivot_table.cells[p] = <<>>
    /\ \E p \in DOMAIN pivot_table.cells :
           pivot_table.cells[p] # <<>> /\ pivot_table.cells[p][1] = Frac(115, 2)

\* C4 as stated: the markers of plot_weather_scatter grow with precipitation
\* up to the 95th percentile, and every value above it gets the size 300.
C4_SizeClampedAtP95 ==
    Done("weather_scatter") =>
        /\ \A i, j \in DOMAIN points :
              (points[i].precip < points[j].precip
                 /\ points[j].precip * max_precip.den <= max_precip.num)
              => FracLeq(points[i].size, points[j].size)
        /\ \A i \in DOMAIN points :
              points[i].precip * max_precip.den > max_precip.num
              => FracEq(points[i].size, Frac(300, 1))

\* C5: for a global table with distinct years, melt then pivot gives back
\* every cell: rows are the years ascending, columns are 1..12, the cell at
\* (Y, m) is the input cell of row Y in the m-th month column, missing
\* exactly when that one is missing (never 0 in its place).
C5_MeltPivotRoundTrip ==
    Done("global_temp_heatmap") =>
        LET df == heap["global_df"]
            h == heatmap_data
        IN /\ Range(h.index) = {df[i].Year : i \in DOMAIN df}
           /\ Len(h.index) = Len(df)
           /\ \A a, b \in DOMAIN h.index : a < b => h.index[a] < h.index[b]
           /\ h.columns = <<1, 2, 3, 4, 5, 6, 7, 8, 9, 10, 11, 12>>
           /\ \A i \in DOMAIN df : \A m \in 1..12 :
                 /\ h.cells[<<df[i].Year, m>>] = df[i].vals[months[m]]
                 /\ (h.cells[<<df[i].Year, m>>].k = "nan") = (df[i].vals[months[m]].k = "nan")

C5_Witness ==
    /\ Done("global_temp_heatmap")
    /\ Len(heap["global_df"]) >= 2
    /\ heap["global_df"][1].Year > heap["global_df"][2].Year
    /\ \E p \in DOMAIN heatmap_data.cells : heatmap_data.cells[p] = NaN
    /\ \E p \in DOMAIN heatmap_data.cells : heatmap_data.cells[p] = Num(0)

\* C6: main()'s preprocessing of the global table does not raise on a
\* cell: a month cell whose field is a number keeps that number, any other
\* ("***", another token, an empty field) becomes missing, none becomes 0;
\* so a cell of the heatmap's matrix is missing exactly when its field was
\* no number.
C6_NonNumericBecomesMissing ==
    /\ failed_at # "preprocess_global"
    /\ Done("preprocess_global") =>
          \A i \in DOMAIN files.global.rows : \A m \in Range(months) :
              LET tok == files.global.rows[i].vals[m]
                  cell == heap["global_df"][i].vals[m]
              IN IF ParseNumber(tok) # <<>>
                 THEN cell = Num(ParseNumber(tok)[1])
                 ELSE cell = NaN
    /\ Done("global_temp_heatmap") =>
          \A i \in DOMAIN files.global.rows : \A m \in 1..12 :
              LET tok == files.global.rows[i].vals[months[m]]
                  cell == heatmap_data.cells[<<files.global.rows[i].Year, m>>]
              IN /\ (cell.k = "nan") = (ParseNumber(tok) = <<>>)
                 /\ cell.k = "num" => cell.v = ParseNumber(tok)[1]

C6_Witness ==
    /\ Done("global_temp_heatmap")
    /\ files.global = Global1
    /\ heatmap_data.cells[<<1881, 7>>] = NaN
    /\ \A m \in (1..12) \ {7} : heatmap_data.cells[<<1881, m>>].k = "num"

\* C7: plot_weather_scatter draws exactly one marker per input record, in
\* order; the marker's precipitation is the record's number when its field
\* is a number and 0 when the field is no number or empty; no cleaned
\* precipitation value is missing.
C7_OnePointPerRecord ==
    Done("weather_scatter") =>
        LET rows == files.weather.rows
        IN /\ Len(points) = Len(rows)
           /\ \A i \in DOMAIN points :
                 /\ points[i].row = i
                 /\ points[i].city = rows[i].city
                 /\ points[i].precip =
                        IF ParseNumber(rows[i].precip) # <<>>
                        THEN ParseNumber(rows[i].precip)[1] ELSE 0
           /\ \A i \in DOMAIN heap["scatter_df_plot"] :
                 heap["scatter_df_plot"][i].precip.k = "num"

C7_Witness ==
    /\ Done("weather_scatter")
    /\ \E i, j, k \in DOMAIN files.weather.rows :
          /\ files.weather.rows[i].precip = <<"T">>
          /\ files.weather.rows[j].precip = <<>>
          /\ files.weather.rows[k].precip = <<"0", ".", "3">>
          /\ points[i].precip = 0 /\ points[j].precip = 0 /\ points[k].precip = 30

C9_AlwaysFourEntries ==
    Done("weather_scatter") =>
        /\ Len(size_legend) = 4
        /\ \A i \in DOMAIN size_legend :
              /\ size_legend[i].value = RoundedLinspace(max_precip)[i]
              /\ FracEq(size_legend[i].size, Interp(size_legend[i].value, max_precip))

\* C9, amended: the legend entries are the distinct values among the four
\* evenly spaced values 0, p95/3, 2*p95/3, p95 rounded to two decimals, in
\* ascending order: 4 entries when p95 >= 0.03, fewer when rounding makes
\* values coincide, 1 when p95 is 0; each entry's size is the interpolation
\* of its rounded value from [0, p95] to [20, 300], 300 from p95 upwards.
C9_DistinctRoundedEntries ==
    Done("weather_scatter") =>
        LET mp == max_precip
            L == size_legend
            near(v, i) ==
                LET d == v * 3 * mp.den - i * mp.num
                IN 2 * d <= 3 * mp.den /\ 0 - 2 * d <= 3 * mp.den
        IN /\ Len(L) \in 1..4
           /\ \A a, b \in DOMAIN L : a < b => L[a].value < L[b].value
           /\ \A i \in 0..3 : \E a \in DOMAIN L : near(L[a].value, i)
           /\ \A a \in DOMAIN L : \E i \in 0..3 : near(L[a].value, i)
           /\ mp.num >= 3 * mp.den => Len(L) = 4
           /\ mp.num = 0 => Len(L) = 1
           /\ \A a \in DOMAIN L :
                 IF L[a].value * mp.den >= mp.num
                 THEN L[a].size = Frac(300, 1)
                 ELSE L[a].size.num * mp.num
                          = (20 * mp.num + 280 * L[a].value * mp.den) * L[a].size.den

C9_Witness ==
    /\ Done("weather_scatter")
    /\ max_precip.num = 0
    /\ Len(size_legend) = 1
    /\ Len(points) >= 2

\* C10: no renderer changes the table it is given: from its load (for the
\* global table, its preprocessing in main()) on, each of main()'s tables
\* holds what it held then; the scatter plot's zero-filled precip and the
\* Minnesota date column are in private copies.
C10_RenderersLeaveTablesAlone ==
    /\ Done("load_weather") =>
          heap["weather_df"] = ReadWeatherCsv(files.weather.rows)
    /\ Done("preprocess_global") =>
          heap["global_df"] = CoerceColumns(ReplaceStars(ReadGlobalCsv(files.global.rows)))
    /\ Done("load_minn") =>
          heap["minn_df"] = ReadMinnCsv(files.minn.rows)

C10_Witness ==
    /\ Done("minnesota_precip_line")
    /\ heap["scatter_df_plot"] # heap["weather_df"]
    /\ \E i \in DOMAIN heap["weather_df"] : heap["weather_df"][i].precip.k # "num"
    /\ \A i \in DOMAIN heap["minn_df_plot"] : heap["minn_df_plot"][i].date.day = 1

====
